---------------------------- MODULE Spec2Model ----------------------------
(* A model of strategy.py: the hourly QQQ momentum check.                  *)
(* run_strategy_check downloads a bar series, computes VWAP, EMA(15) and   *)
(* RSI(14) with pandas, evaluates the entry condition on the latest row    *)
(* and sends a Telegram alert. check_exit_condition_latest is defined by   *)
(* the script but never called by it; it is exercised under SpecExit.      *)
(*                                                                         *)
(* Floating point values are modelled as exact rationals extended with     *)
(* NaN and the two infinities (IEEE division by zero); rounding is the     *)
(* one abstraction.                                                        *)
EXTENDS Integers, Sequences, FiniteSets, TLC

VARIABLES
    pc,            \* position inside run_strategy_check
    bound,         \* local names of run_strategy_check bound so far
    columns,       \* column labels of latest_qqq_data
    bars,          \* rows of latest_qqq_data, oldest first
    latest_row,    \* latest_qqq_data.iloc[-1] with the indicator columns
    entry_result,  \* what check_entry_condition_latest returned
    evaluated,     \* the condition checks this invocation called
    failure,       \* the failure path this invocation took
    outcome,       \* how the invocation ended
    printed,       \* what the invocation printed
    send_calls,    \* messages handed to a bound send_telegram_message
    delivered,     \* messages the Telegram API accepted
    buy_price,     \* the caller's position: None when flat
    peak_price,    \* the caller's highest close since entry
    exit_close,    \* data_row['Close_QQQ'] given to the exit check
    exit_pc,       \* position of the exit check's caller
    exit_result    \* what check_exit_condition_latest returned

vars == <<pc, bound, columns, bars, latest_row, entry_result, evaluated,
          failure, outcome, printed, send_calls, delivered,
          buy_price, peak_price, exit_close, exit_pc, exit_result>>

runVars == <<pc, bound, columns, bars, latest_row, entry_result, evaluated,
             failure, outcome, printed, send_calls, delivered>>

exitVars == <<peak_price, exit_close, exit_pc, exit_result>>

\* Python's None, and a present value.
None == <<>>
Some(x) == <<x>>

(* ------------------------------ bounds ------------------------------- *)

\* Longest bar series yf.download returns in the model.
MaxBars == 3
\* High, low and close of a bar.
Prices == {1, 2}
\* Volume of a bar.
Volumes == {0, 1}
\* Closes handed to the exit check range over 0..MaxExitClose.
MaxExitClose == 222
\* Entry prices of the caller's position.
EntryPrices == {0, 200}
\* Highest closes since entry the caller may hold, besides the entry price.
PeakPrices == {220}

(* ----------------------- floating point values ------------------------ *)

RECURSIVE GCD(_, _)
GCD(a, b) == IF b = 0 THEN a ELSE GCD(b, a % b)

Abs(x) == IF x < 0 THEN -x ELSE x

NaN == [k |-> "nan", n |-> 0, d |-> 1]
PosInf == [k |-> "inf", n |-> 1, d |-> 1]
NegInf == [k |-> "inf", n |-> -1, d |-> 1]

\* The rational n/d, d # 0, in lowest terms with a positive denominator.
Num(n, d) ==
    LET g == GCD(Abs(n), Abs(d))
        s == IF d < 0 THEN -1 ELSE 1
    IN  [k |-> "num", n |-> (s * n) \div g, d |-> Abs(d) \div g]

F(i) == Num(i, 1)

IsNaN(a) == a.k = "nan"
IsDefined(a) == a.k # "nan"
Sign(a) == IF a.n > 0 THEN 1 ELSE IF a.n < 0 THEN -1 ELSE 0

FNeg(a) == IF a.k = "nan" THEN NaN ELSE [a EXCEPT !.n = -a.n]

FAdd(a, b) ==
    CASE a.k = "nan" \/ b.k = "nan" -> NaN
      [] a.k = "inf" /\ b.k = "inf" -> IF a.n = b.n THEN a ELSE NaN
      [] a.k = "inf" -> a
      [] b.k = "inf" -> b
      [] OTHER -> Num(a.n * b.d + b.n * a.d, a.d * b.d)

FSub(a, b) == FAdd(a, FNeg(b))

FMul(a, b) ==
    CASE a.k = "nan" \/ b.k = "nan" -> NaN
      [] a.k = "inf" \/ b.k = "inf" ->
            IF Sign(a) * Sign(b) = 0 THEN NaN
            ELSE IF Sign(a) * Sign(b) > 0 THEN PosInf ELSE NegInf
      [] OTHER -> Num(a.n * b.n, a.d * b.d)

\* IEEE division as numpy performs it: x/0 is an infinity, 0/0 is NaN.
FDiv(a, b) ==
    CASE a.k = "nan" \/ b.k = "nan" -> NaN
      [] a.k = "inf" /\ b.k = "inf" -> NaN
      [] a.k = "inf" -> IF Sign(a) * Sign(b) < 0 THEN NegInf ELSE PosInf
      [] b.k = "inf" -> F(0)
      [] b.n = 0 -> IF a.n = 0 THEN NaN
                    ELSE IF a.n > 0 THEN PosInf ELSE NegInf
      [] OTHER -> Num(a.n * b.d, a.d * b.n)

\* a < b; every comparison with NaN is false.
FLt(a, b) ==
    CASE a.k = "nan" \/ b.k = "nan" -> FALSE
      [] a.k = "inf" /\ b.k = "inf" -> a.n < b.n
      [] a.k = "inf" -> a.n < 0
      [] b.k = "inf" -> b.n > 0
      [] OTHER -> a.n * b.d < b.n * a.d

FGt(a, b) == FLt(b, a)
FEq(a, b) == a.k # "nan" /\ b.k # "nan" /\ a = b
FGe(a, b) == FGt(a, b) \/ FEq(a, b)
FLe(a, b) == FLt(a, b) \/ FEq(a, b)


(* --------------------------- pandas series ---------------------------- *)

\* Series.diff(): the first element has no predecessor and is NaN.
Diff(s) == [i \in 1..Len(s) |-> IF i = 1 THEN NaN ELSE FSub(s[i], s[i - 1])]

\* delta.mask(delta < 0, 0): NaN < 0 is false, so a NaN stays.
Gain(delta) ==
    [i \in 1..Len(delta) |-> IF FLt(delta[i], F(0)) THEN F(0) ELSE delta[i]]

\* delta.mask(delta > 0, 0).abs()
Loss(delta) ==
    [i \in 1..Len(delta) |->
        IF FGt(delta[i], F(0)) THEN F(0)
        ELSE IF FLt(delta[i], F(0)) THEN FNeg(delta[i]) ELSE delta[i]]

\* ewm(com=c): alpha = 1 / (1 + c);  ewm(span=s): alpha = 2 / (s + 1).
AlphaCom(c) == FDiv(F(1), FAdd(F(1), F(c)))
AlphaSpan(s) == FDiv(F(2), FAdd(F(s), F(1)))

\* The running state of pandas' ewm(adjust=False, ignore_na=False,
\* min_periods=0).mean(): the weighted mean and the weight of the past.
\* The first observation seeds the mean; leading NaNs give NaN.
RECURSIVE EwmAt(_, _, _)
EwmAt(x, alpha, i) ==
    IF i = 1 THEN [w |-> x[1], old_wt |-> F(1)]
    ELSE LET p == EwmAt(x, alpha, i - 1)
             cur == x[i]
             ow == FMul(p.old_wt, FSub(F(1), alpha))
         IN  IF IsDefined(p.w)
             THEN IF IsDefined(cur)
                  THEN [w |-> IF p.w = cur THEN p.w
                              ELSE FDiv(FAdd(FMul(ow, p.w), FMul(alpha, cur)),
                                        FAdd(ow, alpha)),
                        old_wt |-> F(1)]
                  ELSE [w |-> p.w, old_wt |-> ow]
             ELSE [w |-> cur, old_wt |-> p.old_wt]

Ewm(x, alpha) == [i \in 1..Len(x) |-> EwmAt(x, alpha, i).w]

\* Series.cumsum()
RECURSIVE CumSumAt(_, _)
CumSumAt(x, i) == IF i = 1 THEN x[1] ELSE FAdd(CumSumAt(x, i - 1), x[i])

CumSum(x) == [i \in 1..Len(x) |-> CumSumAt(x, i)]

(* ----------------------------- indicators ----------------------------- *)

RSI_PERIOD == 14
EMA_SPAN == 15
RSI_ENTRY_THRESHOLD == 45

avg_gain(data, period) == Ewm(Gain(Diff(data)), AlphaCom(period - 1))
avg_loss(data, period) == Ewm(Loss(Diff(data)), AlphaCom(period - 1))

\* RsiValue with the ratio inverted: average loss over average gain.
RsiValueInverted(g, l) ==
    FSub(F(100), FDiv(F(100), FAdd(F(1), FDiv(l, g))))

\* The RSI of one bar from its smoothed averages.
RsiValue(g, l) == FSub(F(100), FDiv(F(100), FAdd(F(1), FDiv(g, l))))

calculate_rsi(data, period) ==
    LET gains == avg_gain(data, period)
        losses == avg_loss(data, period)
    IN  [i \in 1..Len(data) |-> RsiValue(gains[i], losses[i])]

CloseSeries(rows) == [i \in 1..Len(rows) |-> F(rows[i].Close)]

Typical_Price(rows) ==
    [i \in 1..Len(rows) |->
        FDiv(FAdd(FAdd(F(rows[i].High), F(rows[i].Low)), F(rows[i].Close)),
             F(3))]

Cumulative_TP_Volume(rows) ==
    CumSum([i \in 1..Len(rows) |->
                FMul(Typical_Price(rows)[i], F(rows[i].Volume))])

Cumulative_Volume(rows) == CumSum([i \in 1..Len(rows) |-> F(rows[i].Volume)])

VWAP(rows) ==
    [i \in 1..Len(rows) |->
        FDiv(Cumulative_TP_Volume(rows)[i], Cumulative_Volume(rows)[i])]

\* EMA computed with min_periods=span: undefined until span bars are seen.
EMA_min_periods(rows) ==
    [i \in 1..Len(rows) |->
        IF i < EMA_SPAN THEN NaN
        ELSE Ewm(CloseSeries(rows), AlphaSpan(EMA_SPAN))[i]]

EMA(rows) == Ewm(CloseSeries(rows), AlphaSpan(EMA_SPAN))

RSI(rows) == calculate_rsi(CloseSeries(rows), RSI_PERIOD)

\* latest_qqq_data.iloc[-1] once the indicator columns are added.
LatestRow(rows) ==
    LET n == Len(rows)
    IN  [Close |-> F(rows[n].Close), RSI |-> RSI(rows)[n],
         EMA |-> EMA(rows)[n], VWAP |-> VWAP(rows)[n]]


(* ------------------------- condition checks --------------------------- *)

\* The entry check with close >= VWAP in place of close > VWAP.
check_entry_condition_latest_ge(data_row) ==
    /\ FGt(data_row.RSI, F(RSI_ENTRY_THRESHOLD))
    /\ FGt(data_row.Close, data_row.EMA)
    /\ FGe(data_row.Close, data_row.VWAP)

\* The KeyError branch cannot be taken: the row always carries the four
\* columns. A comparison with NaN is False, and so is the conjunction.
check_entry_condition_latest(data_row) ==
    /\ FGt(data_row.RSI, F(RSI_ENTRY_THRESHOLD))
    /\ FGt(data_row.Close, data_row.EMA)
    /\ FGt(data_row.Close, data_row.VWAP)

take_profit_percentage == Num(5, 2)
stop_loss_percentage == Num(1, 2)
trailing_stop_percentage == F(1)

ExitReturn(hit, reason) == [raised |-> None, hit |-> hit, reason |-> reason]

\* The exit check with the Stop Loss test ahead of the Take Profit test.
check_exit_condition_latest_sl_first(current_price, bp) ==
    IF bp = None THEN ExitReturn(FALSE, None)
    ELSE LET take_profit_price ==
                 FMul(F(bp[1]),
                      FAdd(F(1), FDiv(take_profit_percentage, F(100))))
             stop_loss_price ==
                 FMul(F(bp[1]),
                      FSub(F(1), FDiv(stop_loss_percentage, F(100))))
         IN  IF FLe(F(current_price), stop_loss_price)
             THEN ExitReturn(TRUE, Some("Stop Loss"))
             ELSE IF FGe(F(current_price), take_profit_price)
                  THEN ExitReturn(TRUE, Some("Take Profit"))
                  ELSE ExitReturn(FALSE, None)

\* The exit check raising when called without a position.
check_exit_condition_latest_raising(current_price, bp) ==
    IF bp = None
    THEN [raised |-> Some("InvalidPositionState"), hit |-> FALSE,
          reason |-> None]
    ELSE LET take_profit_price ==
                 FMul(F(bp[1]),
                      FAdd(F(1), FDiv(take_profit_percentage, F(100))))
             stop_loss_price ==
                 FMul(F(bp[1]),
                      FSub(F(1), FDiv(stop_loss_percentage, F(100))))
         IN  IF FGe(F(current_price), take_profit_price)
             THEN ExitReturn(TRUE, Some("Take Profit"))
             ELSE IF FLe(F(current_price), stop_loss_price)
                  THEN ExitReturn(TRUE, Some("Stop Loss"))
                  ELSE ExitReturn(FALSE, None)

\* trailing_stop_percentage is a parameter the body never reads.
check_exit_condition_latest(current_price, bp) ==
    IF bp = None THEN ExitReturn(FALSE, None)
    ELSE LET take_profit_price ==
                 FMul(F(bp[1]),
                      FAdd(F(1), FDiv(take_profit_percentage, F(100))))
             stop_loss_price ==
                 FMul(F(bp[1]),
                      FSub(F(1), FDiv(stop_loss_percentage, F(100))))
         IN  IF FGe(F(current_price), take_profit_price)
             THEN ExitReturn(TRUE, Some("Take Profit"))
             ELSE IF FLe(F(current_price), stop_loss_price)
                  THEN ExitReturn(TRUE, Some("Stop Loss"))
                  ELSE ExitReturn(FALSE, None)

(* ------------------------------ Telegram ------------------------------ *)

\* What send_telegram_message(message) prints and delivers.
send_telegram_message(message, env_set, post_ok) ==
    IF ~env_set
    THEN [printed |-> {"Telegram bot token or chat ID not set"},
          delivered |-> {}]
    ELSE IF post_ok
         THEN [printed |-> {"Telegram message sent successfully"},
               delivered |-> {message}]
         ELSE [printed |-> {"Error sending Telegram message"},
               delivered |-> {}]

(* ---------------------------- yf.download ----------------------------- *)

Fields == {"Open", "High", "Low", "Close", "Volume"}

Bars ==
    {b \in [High : Prices, Low : Prices, Close : Prices, Volume : Volumes] :
        b.Low <= b.Close /\ b.Close <= b.High}

RECURSIVE SeqsUpTo(_, _)
SeqsUpTo(S, n) ==
    IF n = 0 THEN {<<>>}
    ELSE LET shorter == SeqsUpTo(S, n - 1)
         IN  shorter \cup {Append(q, x) : q \in shorter, x \in S}

\* The frames yf.download may return: a (field, ticker) MultiIndex, with one
\* field possibly absent or with a blank second level, or a flat Index.
DownloadFrames ==
    LET multi(second, drop) ==
            {<<f, second>> : f \in Fields \ drop}
        labelSets ==
            {[index |-> "multi", labels |-> multi("QQQ", {})]}
            \cup {[index |-> "multi", labels |-> multi("QQQ", {f})] :
                     f \in Fields}
            \cup {[index |-> "multi", labels |-> multi("", {})]}
            \cup {[index |-> "flat", labels |-> {<<f>> : f \in Fields}]}
    IN  {[index |-> l.index, labels |-> l.labels, rows |-> r] :
            l \in labelSets, r \in SeqsUpTo(Bars, MaxBars)}

\* '_'.join(col) if col[1] else col[0]
FlattenLabel(col) ==
    IF col[2] # "" THEN col[1] \o "_" \o col[2] ELSE col[1]

FlattenColumns(frame) ==
    IF frame.index = "multi"
    THEN {FlattenLabel(col) : col \in frame.labels}
    ELSE {col[1] : col \in frame.labels}

\* The columns of the first statement of the try alone.
VwapColumnsFirstLine == {"High_QQQ", "Low_QQQ", "Close_QQQ"}

\* The columns the VWAP block reads inside its try.
VwapColumns == {"High_QQQ", "Low_QQQ", "Close_QQQ", "Volume_QQQ"}


(* ------------------------- run_strategy_check ------------------------- *)

LocalFunctions ==
    {"calculate_rsi", "check_entry_condition_latest",
     "check_exit_condition_latest", "send_telegram_message"}

\* The checks a position-gated evaluator would call.
ChecksCalledByPosition(bp) == IF bp = None THEN {"entry"} ELSE {"exit"}

\* The condition checks run_strategy_check calls: the script keeps no
\* position, so it calls the entry check whatever the caller's position is.
ChecksCalled(bp) == {"entry"}

\* What a call may meet: whether os.getenv finds the token and the chat id,
\* and whether requests.post succeeds.
SendEnvironments == [env_set : BOOLEAN, post_ok : BOOLEAN]

\* A call of the local name send_telegram_message: the name is a local of
\* run_strategy_check, bound only once its def statement has run.
CallSend(message, env) ==
    IF "send_telegram_message" \in bound
    THEN LET r == send_telegram_message(message, env.env_set, env.post_ok)
         IN  [raised |-> None, send_calls |-> {message},
              delivered |-> r.delivered, printed |-> r.printed]
    ELSE [raised |-> Some("UnboundLocalError"), send_calls |-> {},
          delivered |-> {}, printed |-> {}]

\* A failure path: print, send_telegram_message(message), return.
NotifyAndReturn(kind, text, message, env) ==
    LET c == CallSend(message, env)
    IN  /\ failure' = kind
        /\ pc' = "done"
        /\ printed' = printed \cup {text} \cup c.printed
        /\ send_calls' = send_calls \cup c.send_calls
        /\ delivered' = delivered \cup c.delivered
        /\ outcome' = IF c.raised = None THEN "returned" ELSE c.raised[1]

Init ==
    /\ pc = "start"
    /\ bound = {}
    /\ columns = {}
    /\ bars = <<>>
    /\ latest_row = None
    /\ entry_result = None
    /\ evaluated = {}
    /\ failure = "none"
    /\ outcome = "running"
    /\ printed = {}
    /\ send_calls = {}
    /\ delivered = {}
    /\ buy_price \in {None} \cup {Some(p) : p \in EntryPrices \ {0}}
    /\ peak_price = buy_price
    /\ exit_close = None
    /\ exit_pc = "idle"
    /\ exit_result = None

\* yf.download, the empty check, the flattening of the columns and the
\* def of calculate_rsi.
FetchData ==
    /\ pc = "start"
    /\ \/ \E env \in SendEnvironments :
            /\ NotifyAndReturn("fetch", "Error fetching data",
                               "Error fetching QQQ data", env)
            /\ UNCHANGED <<bound, columns, bars>>
       \/ \E frame \in DownloadFrames :
            IF frame.rows = <<>>
            THEN \E env \in SendEnvironments :
                    /\ NotifyAndReturn("empty", "Could not fetch latest data.",
                                       "Could not fetch latest QQQ data.",
                                       env)
                    /\ UNCHANGED <<bound, columns, bars>>
            ELSE /\ columns' = FlattenColumns(frame)
                 /\ bars' = frame.rows
                 /\ bound' = bound \cup {"calculate_rsi"}
                 /\ pc' = "fetched"
                 /\ UNCHANGED <<failure, outcome, printed, send_calls,
                                delivered>>
    /\ UNCHANGED <<latest_row, entry_result, evaluated, buy_price,
                   exitVars>>

\* The VWAP block with its KeyError handler, EMA, RSI, the drop of the
\* intermediate columns, the latest row, and the defs of the two checks and
\* of send_telegram_message.
ComputeIndicators ==
    /\ pc = "fetched"
    /\ IF ~({"High_QQQ", "Low_QQQ", "Close_QQQ"} \subseteq columns)
       THEN \E env \in SendEnvironments :
               /\ NotifyAndReturn("columns",
                      "Error accessing expected columns after flattening",
                      "Error accessing columns in QQQ data", env)
               /\ UNCHANGED <<bound, columns, latest_row>>
       ELSE IF ~(VwapColumns \subseteq columns)
       THEN \E env \in SendEnvironments :
               /\ NotifyAndReturn("columns",
                      "Error accessing expected columns after flattening",
                      "Error accessing columns in QQQ data", env)
               /\ columns' = columns \cup {"Typical_Price"}
               /\ UNCHANGED <<bound, latest_row>>
       ELSE IF Len(bars) = 0
       THEN /\ pc' = "done"
            /\ outcome' = "returned"
            /\ printed' =
                   printed \cup {"No data points after indicator calculation."}
            /\ columns' = columns \cup {"VWAP", "EMA", "RSI"}
            /\ UNCHANGED <<bound, latest_row, failure, send_calls, delivered>>
       ELSE /\ columns' = columns \cup {"VWAP", "EMA", "RSI"}
            /\ latest_row' = Some(LatestRow(bars))
            /\ bound' = LocalFunctions
            /\ pc' = "entry"
            /\ UNCHANGED <<failure, outcome, printed, send_calls, delivered>>
    /\ UNCHANGED <<bars, entry_result, evaluated, buy_price, exitVars>>

\* The entry check on the latest row and the alert.
EntryCheck ==
    /\ pc = "entry"
    /\ evaluated' = evaluated \cup ChecksCalled(buy_price)
    /\ LET r == check_entry_condition_latest(latest_row[1])
       IN  /\ entry_result' = Some(r)
           /\ IF r
              THEN \E env \in SendEnvironments :
                      LET c == CallSend("Entry signal triggered for QQQ",
                                        env)
                      IN  /\ printed' =
                                 printed
                                   \cup {"Entry signal triggered for QQQ"}
                                   \cup c.printed
                          /\ send_calls' = send_calls \cup c.send_calls
                          /\ delivered' = delivered \cup c.delivered
                          /\ outcome' = IF c.raised = None THEN "returned"
                                        ELSE c.raised[1]
              ELSE /\ printed' = printed \cup {"No entry signal"}
                   /\ outcome' = "returned"
                   /\ UNCHANGED <<send_calls, delivered>>
    /\ pc' = "done"
    /\ UNCHANGED <<bound, columns, bars, latest_row, failure, buy_price,
                   exitVars>>

\* The scheduler starts the script again: a fresh process, no state kept.
NextRun ==
    /\ pc = "done"
    /\ pc' = "start"
    /\ bound' = {}
    /\ columns' = {}
    /\ bars' = <<>>
    /\ latest_row' = None
    /\ entry_result' = None
    /\ evaluated' = {}
    /\ failure' = "none"
    /\ outcome' = "running"
    /\ printed' = {}
    /\ send_calls' = {}
    /\ delivered' = {}
    /\ UNCHANGED <<buy_price, exitVars>>

Next == FetchData \/ ComputeIndicators \/ EntryCheck \/ NextRun

Spec == Init /\ [][Next]_vars

(* ------------------- check_exit_condition_latest ---------------------- *)

\* The exit check is called by nothing in the script; its intended caller
\* holds the position and calls it once per hourly run.
InitExit ==
    /\ pc = "start"
    /\ bound = {}
    /\ columns = {}
    /\ bars = <<>>
    /\ latest_row = None
    /\ entry_result = None
    /\ evaluated = {}
    /\ failure = "none"
    /\ outcome = "running"
    /\ printed = {}
    /\ send_calls = {}
    /\ delivered = {}
    /\ buy_price \in {None} \cup {Some(p) : p \in EntryPrices}
    /\ peak_price \in
           IF buy_price = None THEN {None}
           ELSE {buy_price}
                  \cup {Some(q) : q \in {x \in PeakPrices : x >= buy_price[1]}}
    /\ exit_close = None
    /\ exit_pc = "idle"
    /\ exit_result = None

\* One call of the exit check; it returns a pair and writes nothing.
ExitCheck ==
    /\ exit_pc = "idle"
    /\ \E c \in 0..MaxExitClose :
          /\ exit_close' = Some(c)
          /\ exit_result' = Some(check_exit_condition_latest(c, buy_price))
    /\ exit_pc' = "checked"
    /\ UNCHANGED <<runVars, buy_price, peak_price>>

\* The caller's next hourly run.
ExitNextRun ==
    /\ exit_pc = "checked"
    /\ exit_pc' = "idle"
    /\ exit_close' = None
    /\ exit_result' = None
    /\ UNCHANGED <<runVars, buy_price, peak_price>>

NextExit == ExitCheck \/ ExitNextRun

SpecExit == InitExit /\ [][NextExit]_vars


(* ------------------------------ properties ---------------------------- *)

EntryMessage == "Entry signal triggered for QQQ"

\* a > b for two finite values, by cross-multiplication.
Above(a, b) == a.k = "num" /\ b.k = "num" /\ a.n * b.d > b.n * a.d

AllDefined(row) ==
    IsDefined(row.RSI) /\ IsDefined(row.EMA) /\ IsDefined(row.VWAP)

\* C1: the entry check triggers iff RSI, EMA and VWAP are all defined and
\* RSI > 45, close > EMA and close > VWAP, all strict; with any of the three
\* undefined the result is no-signal, no entry alert is sent and the
\* invocation returns without an error.
C1_EntryIffDefinedAndAbove ==
    entry_result # None =>
        LET row == latest_row[1]
        IN  /\ entry_result[1] <=>
                  (/\ AllDefined(row)
                   /\ Above(row.RSI, F(45))
                   /\ Above(row.Close, row.EMA)
                   /\ Above(row.Close, row.VWAP))
            /\ ~AllDefined(row) =>
                  (/\ entry_result[1] = FALSE
                   /\ EntryMessage \notin (send_calls \cup delivered)
                   /\ outcome = "returned")

C1_Witness ==
    /\ pc = "done"
    /\ entry_result = Some(TRUE)
    /\ AllDefined(latest_row[1])
    /\ EntryMessage \in delivered

\* Thresholds of the exit rules, in integers: close and entry price e.
TakeProfitHolds(c, e) == c * 1000 >= e * 1025
StopLossHolds(c, e) == c * 1000 <= e * 995
TrailingStopHolds(c, peak) == c * 100 <= peak * 99

\* C2: with a position, the exit check reports at most one reason, in the
\* order TakeProfit (close >= entry * 1.025), then StopLoss
\* (close <= entry * 0.995); a close meeting both thresholds reports
\* TakeProfit; a close meeting neither reports no exit.
C2_ExitPriority ==
    (exit_result # None /\ buy_price # None) =>
        LET c == exit_close[1]
            e == buy_price[1]
            r == exit_result[1]
        IN  /\ r.raised = None
            /\ r.hit <=> r.reason # None
            /\ TakeProfitHolds(c, e) => r.reason = Some("Take Profit")
            /\ (~TakeProfitHolds(c, e) /\ StopLossHolds(c, e)) =>
                  r.reason = Some("Stop Loss")
            /\ (~TakeProfitHolds(c, e) /\ ~StopLossHolds(c, e)) =>
                  r.reason = None

C2_Witness ==
    /\ exit_pc = "checked"
    /\ buy_price # None
    /\ TakeProfitHolds(exit_close[1], buy_price[1])
    /\ StopLossHolds(exit_close[1], buy_price[1])
    /\ exit_result[1].reason = Some("Take Profit")

\* C3: with a position and neither TakeProfit nor StopLoss holding, the exit
\* check reports TrailingStop whenever close <= peak_price_since_entry * 0.99.
C3_TrailingStopReported ==
    (exit_result # None /\ buy_price # None) =>
        LET c == exit_close[1]
            e == buy_price[1]
        IN  (/\ ~TakeProfitHolds(c, e)
             /\ ~StopLossHolds(c, e)
             /\ TrailingStopHolds(c, peak_price[1])) =>
                exit_result[1].reason = Some("Trailing Stop")

Max(a, b) == IF a >= b THEN a ELSE b

\* C4: every exit check made with an open position (here: one entered at a
\* positive price) updates peak_price_since_entry to
\* max(peak_price_since_entry, close).
C4_PeakTracksMax ==
    [][(/\ exit_pc = "idle"
        /\ exit_pc' = "checked"
        /\ buy_price # None
        /\ buy_price[1] > 0) =>
          peak_price' = Some(Max(peak_price[1], exit_close'[1]))]_vars

\* C5 as claimed: an invocation that reaches the evaluator runs exactly one
\* check, the entry check when flat and the exit check when in a position.
C5_ExactlyOneByPosition ==
    (pc = "done" /\ failure = "none") =>
        evaluated = IF buy_price = None THEN {"entry"} ELSE {"exit"}

\* C5: an invocation never evaluates both checks: it evaluates the entry
\* check alone once the data is validated, whatever the position, and no
\* check on a failure path; the exit check is never evaluated.
C5_EntryOnlyNeverBoth ==
    /\ "exit" \notin evaluated
    /\ (pc = "done" /\ failure = "none") => evaluated = {"entry"}
    /\ failure # "none" => evaluated = {}

C5_Witness ==
    /\ pc = "done"
    /\ buy_price # None
    /\ evaluated = {"entry"}

\* C6 as claimed: the exit check called while flat fails with
\* InvalidPositionState.
C6_FlatExitFailsLoudly ==
    (exit_result # None /\ buy_price = None) =>
        exit_result[1].raised = Some("InvalidPositionState")

\* C6: the exit check called while flat (buy_price is None) raises nothing
\* and returns the ordinary no-exit result (False, None).
C6_FlatExitReturnsNoExit ==
    (exit_result # None /\ buy_price = None) =>
        exit_result[1] = [raised |-> None, hit |-> FALSE, reason |-> None]

C6_Witness ==
    /\ exit_pc = "checked"
    /\ buy_price = None
    /\ exit_result # None

ErrorTexts ==
    {"Error fetching data", "Could not fetch latest data.",
     "Error accessing expected columns after flattening"}

C9_RsiRange ==
    pc = "entry" =>
        LET gains == avg_gain(CloseSeries(bars), RSI_PERIOD)
            losses == avg_loss(CloseSeries(bars), RSI_PERIOD)
            rsi == RSI(bars)
        IN  \A i \in 1..Len(bars) :
                LET g == gains[i]
                    l == losses[i]
                    r == rsi[i]
                IN  /\ IsNaN(r)
                       \/ (r.k = "num" /\ 0 <= r.n /\ r.n <= 100 * r.d)
                    /\ (l = F(0) /\ Above(g, F(0))) => r = F(100)
                    /\ (l = F(0) /\ g = F(0)) => IsNaN(r)

C9_Witness ==
    /\ pc = "entry"
    /\ Len(bars) = 3
    /\ IsNaN(RSI(bars)[2])
    /\ RSI(bars)[3] = F(100)

\* C10: every failure path of run_strategy_check hands an error message to
\* send_telegram_message and then returns normally.
C10_FailureNotifiesAndReturns ==
    (pc = "done" /\ failure # "none") =>
        (outcome = "returned" /\ send_calls # {})

=============================================================================
